---- MODULE Spec2Model ----
(***************************************************************************)
(* State-machine model of rls.memories.er_buffer.DataBuffer: a ring of     *)
(* max_horizon time slots per key/field, written by add through one shared *)
(* pointer and read by sample through random (start, copy) index pairs.    *)
(*                                                                         *)
(* Arrays are functions over 0-based indices, as in numpy:                 *)
(*   _buffer[k][f][slot][copy]   the store  [max_horizon, n_copys]         *)
(*   samples[k][f][t][b]         a batch    [T, B]                         *)
(***************************************************************************)
EXTENDS Integers, Sequences, FiniteSets, TLC

\* ------------------------------------------------------------------ bounds
MaxCopys      == 2      \* n_copys      ranges over 1..MaxCopys
MaxBufferSize == 4      \* buffer_size  ranges over 1..MaxBufferSize
MaxBatch      == 2      \* batch_size   ranges over 1..MaxBatch
MaxT          == 2      \* time_step    ranges over 1..MaxT
MaxAdds       == 5      \* successful add calls per behaviour
MaxArg        == 1      \* explicit batchsize / timestep arguments: 1..MaxArg
MaxMismatched == 1      \* add calls with an array of another shape
MaxAgents == 2          \* agents of a Unity behaviour
MaxZeroPolls == 1       \* polls in a row that report no decision step

VARIABLES
    n_copys, batch_size, buffer_size, time_step, max_horizon,  \* __init__ 52-56
    _buffer,            \* self._buffer            {key: {field: array}}
    _horizon_length,    \* self._horizon_length    the fill counter
    _pointer,           \* self._pointer           the write pointer
    op,                 \* the call or property read in progress, or "idle"
    err,                \* "none", or the exception the call raised
    frame,              \* arguments and locals of the call in progress
    written,            \* ghost: per key/field, the slots line 75 has written
    n_adds,             \* ghost: the number of successful add calls
    history,            \* ghost: the data of the last max_horizon + 1 of them
    passed,             \* ghost: the top-level keys of every add call so far
    n_mismatched,       \* ghost: the number of add calls with a mismatched array
    agent_ids,          \* MarlPolicy.agent_ids       the policy's agent ids
    _is_train_mode,     \* MarlPolicy._is_train_mode  set by setup
    _store,             \* MarlPolicy._store          set by setup
    algo_specs,         \* AlgoRegistry.algo_specs   {name: attrs}
    reg_call,           \* the registry call in progress, or NoRegCall
    first_attrs,        \* ghost: per name, the attrs of its first register call
    pc,                 \* get_obs: "idle", "poll" (line 213), "done", "raised"
    n_agents,           \* get_obs: n, the behaviour's number of agents
    ps,                 \* get_obs: ps, the terminal-step batches recorded
    _real_done,         \* BasicUnityEnvironment._real_done, set by __init__
    done,               \* get_obs: done, per agent, or <<>> before line 227
    info_max_step,      \* get_obs: info_max_step, per agent, or <<>>
    info_real_done,     \* get_obs: info_real_done, per agent, or <<>>
    last_ds,            \* get_obs: len(ds) of the latest poll
    seen,               \* ghost: the non-empty batches the polls reported
    n_polls,            \* ghost: the number of get_steps calls of the loop
    n_steps             \* ghost: the number of env.step() calls of the loop

config == <<n_copys, batch_size, buffer_size, time_step, max_horizon>>
store  == <<_buffer, _horizon_length, _pointer>>
ghost  == <<written, n_adds, history, passed, n_mismatched>>
policy == <<agent_ids, _is_train_mode, _store>>
registry == <<algo_specs, reg_call, first_attrs>>
unity  == <<pc, n_agents, ps, _real_done, done, info_max_step, info_real_done,
            last_ds, seen, n_polls, n_steps>>
others == <<policy, registry, unity>>
core   == <<config, store, op, err, frame, ghost>>
vars   == <<core, others>>

\* ------------------------------------------------------------------ data
\* Top-level keys in the order a producer with agents agent_0, agent_1
\* inserts them (agents, then 'global'), and each key's fields in the order
\* the producer's Data(...) and update(acts[id]) insert them.
KeyOrder == <<"agent_0", "agent_1", "global">>

FieldOrder(k) ==
    IF k = "global" THEN <<"obs", "begin_mask", "obs_">>
    ELSE <<"obs", "reward", "obs_", "done", "action">>

\* The key sets an add call may carry: single-agent and multi-agent records.
KeySets == { {"agent_0", "global"}, {"agent_0", "agent_1", "global"} }

\* What np.empty may leave in a freshly allocated array.
GarbageValues == {-1, 0}

Range(f) == { f[i] : i \in DOMAIN f }

Min(a, b) == IF a <= b THEN a ELSE b

\* Every key/field pair a record may carry, numbered from 0.
AllFields ==
    <<<<"agent_0", "obs">>, <<"agent_0", "reward">>, <<"agent_0", "obs_">>,
      <<"agent_0", "done">>, <<"agent_0", "action">>,
      <<"agent_1", "obs">>, <<"agent_1", "reward">>, <<"agent_1", "obs_">>,
      <<"agent_1", "done">>, <<"agent_1", "action">>,
      <<"global", "obs">>, <<"global", "begin_mask">>, <<"global", "obs_">>>>

FieldId(k, f) == (CHOOSE i \in 1..Len(AllFields) : AllFields[i] = <<k, f>>) - 1

NumFieldIds == Len(AllFields)

\* The value the n-th add call (0-based) carries for copy c in field k/f: the
\* marker n * n_copys + c, unique per (call, copy), salted with the field.
CellValue(n, c, k, f) == (n * n_copys + c) * NumFieldIds + FieldId(k, f)

MarkerOf(v) == v \div NumFieldIds

\* One synchronized time slice with keys ks and, under key k, the fields
\* fields[k]: data[k][f] is an array of shape [n_copys].
Slice(ks, fields, n) ==
    [k \in ks |-> [f \in fields[k] |->
        [c \in 0..(n_copys - 1) |-> CellValue(n, c, k, f)]]]

\* The fields of the records a caller of the buffer alone passes: some of
\* the documented batch layout, two per agent and one under 'global'.
CallerFields == [k \in Range(KeyOrder) |->
                    IF k = "global" THEN {"begin_mask"} ELSE {"obs", "reward"}]

\* The time slice of the n-th add call of such a caller.
AddInput(ks, n) == Slice(ks, CallerFields, n)

\* Every (key, field) pair of a data record.
DataFields(data) == UNION { {k} \X DOMAIN data[k] : k \in DOMAIN data }

\* The time slice with the array of field f of key k given len entries
\* instead of n_copys.
Reshaped(data, k, f, n, len) ==
    [data EXCEPT ![k][f] = [c \in 0..(len - 1) |-> CellValue(n, c, k, f)]]

\* ------------------------------------------------------------------ add
\* Mutant: the time axis is allocated with buffer_size slots.
EmptyArrayBufferSize(v, g) == [s \in 0..(buffer_size - 1) |-> [c \in DOMAIN v |-> g]]

\* np.empty((self.max_horizon,) + _v.shape, _v.dtype): uninitialised cells.
EmptyArray(v, g) == [s \in 0..(max_horizon - 1) |-> [c \in DOMAIN v |-> g]]

\* Mutant: the write lands one slot after the pointer.
WriteSlotOffByOne(arr, p, v) == [arr EXCEPT ![(p + 1) % max_horizon] = v]

\* Mutant: the write is broadcast over the whole time axis ([:] for [pointer]).
WriteSlotAll(arr, p, v) == [s \in DOMAIN arr |-> v]

\* numpy's broadcasting rule for assigning an array of shape [m] to a row of
\* shape [n]: m = n, or m = 1.
Broadcastable(v, row) == DOMAIN v = DOMAIN row \/ DOMAIN v = {0}

\* The value the row takes: v itself, or its one entry repeated.
Broadcast(v, row) ==
    IF DOMAIN v = DOMAIN row THEN v ELSE [c \in DOMAIN row |-> v[0]]

\* self._buffer[k][_k][self._pointer] = _v
WriteSlot(arr, p, v) == [arr EXCEPT ![p] = Broadcast(v, arr[p])]

\* Mutant: the pointer wraps modulo buffer_size, not max_horizon.
NextPointerBufferSize(p) == (p + 1) % buffer_size

\* Mutant: the pointer moves backwards through the ring.
NextPointerBack(p) == (p - 1) % max_horizon

\* self._pointer = (self._pointer + 1) % self.max_horizon
NextPointer(p) == (p + 1) % max_horizon

\* Mutant: max for min.
NextHorizonMax(h) == IF h + 1 >= max_horizon THEN h + 1 ELSE max_horizon

\* Mutant: the fill counter starts over when the ring is full.
NextHorizonWrap(h) == (h + 1) % (max_horizon + 1)

\* self._horizon_length = min(self._horizon_length + 1, self.max_horizon)
NextHorizon(h) == Min(h + 1, max_horizon)

\* Set or extend a dict entry.
Put(d, k, v) == [x \in (DOMAIN d) \cup {k} |-> IF x = k THEN v ELSE d[x]]

\* The inner loop (lines 71-75) over the fields fs of key k, from state
\* st = [buf, wr, err]; stops at the first statement that raises.
RECURSIVE AddFields(_, _, _, _, _)
AddFields(st, k, v, fs, g) ==
    IF fs = <<>> \/ st.err # "none" THEN st
    ELSE
        LET f     == Head(fs)
            fresh == f \notin DOMAIN st.buf[k]
            arr   == IF fresh THEN EmptyArray(v[f], g) ELSE st.buf[k][f]
            wr0   == IF fresh THEN {} ELSE st.wr[k][f]
        IN  IF _pointer \notin DOMAIN arr
            THEN \* index 0 is out of bounds for axis 0 with size 0
                 [buf |-> Put(st.buf, k, Put(st.buf[k], f, arr)),
                  wr  |-> Put(st.wr, k, Put(st.wr[k], f, wr0)),
                  err |-> "IndexError"]
            ELSE IF ~Broadcastable(v[f], arr[_pointer])
            THEN \* could not broadcast input array into the slot's shape
                 [buf |-> Put(st.buf, k, Put(st.buf[k], f, arr)),
                  wr  |-> Put(st.wr, k, Put(st.wr[k], f, wr0)),
                  err |-> "ValueError"]
            ELSE AddFields(
                    [buf |-> Put(st.buf, k, Put(st.buf[k], f, WriteSlot(arr, _pointer, v[f]))),
                     wr  |-> Put(st.wr, k, Put(st.wr[k], f, wr0 \cup {_pointer})),
                     err |-> "none"],
                    k, v, Tail(fs), g)

\* The outer loop (lines 68-75) over the keys ks of data, in order.
RECURSIVE AddKeys(_, _, _, _)
AddKeys(st, data, ks, g) ==
    IF ks = <<>> \/ st.err # "none" THEN st
    ELSE
        LET k   == Head(ks)
            st1 == IF k \in DOMAIN st.buf THEN st
                   ELSE [st EXCEPT !.buf = Put(st.buf, k, <<>>),
                                   !.wr  = Put(st.wr, k, <<>>)]
            fs  == SelectSeq(FieldOrder(k), LAMBDA f : f \in DOMAIN data[k])
        IN  AddKeys(AddFields(st1, k, data[k], fs, g), data, Tail(ks), g)

\* Mutant: the pointer and the fill counter move before the fields are
\* written, so a call that raises leaves them advanced.
AddAdvancingFirst(data, ks, g) ==
    LET st == AddKeys([buf |-> _buffer, wr |-> written, err |-> "none"], data, ks, g)
    IN  IF max_horizon = 0
        THEN [buf |-> st.buf, wr |-> st.wr, ptr |-> _pointer,
              len |-> _horizon_length, err |-> "ZeroDivisionError"]
        ELSE [buf |-> st.buf, wr |-> st.wr, ptr |-> NextPointer(_pointer),
              len |-> NextHorizon(_horizon_length), err |-> st.err]

\* DataBuffer.add(data); ks is the order data.items() yields the keys in
\* (the dict's insertion order), g is what np.empty leaves in a new array.
\* The result is the whole state after the call, and the exception raised.
add(data, ks, g) ==
    LET st == AddKeys([buf |-> _buffer, wr |-> written, err |-> "none"], data, ks, g)
    IN  IF st.err # "none"
        THEN [buf |-> st.buf, wr |-> st.wr, ptr |-> _pointer,
              len |-> _horizon_length, err |-> st.err]
        ELSE IF max_horizon = 0
        THEN [buf |-> st.buf, wr |-> st.wr, ptr |-> _pointer,
              len |-> _horizon_length, err |-> "ZeroDivisionError"]
        ELSE [buf |-> st.buf, wr |-> st.wr, ptr |-> NextPointer(_pointer),
              len |-> NextHorizon(_horizon_length), err |-> "none"]

\* An optional argument: None when the caller leaves it out, Some(v) when
\* the caller supplies v.
None == <<>>
Some(v) == <<v>>

\* The arguments and locals of a call, before the call sets any of them; ret
\* is the value a property read returns.
NoLocals == [data |-> <<>>, batchsize |-> None, timestep |-> None, B |-> 0, T |-> 0,
             x |-> <<>>, y |-> <<>>, xs |-> <<>>, samples |-> <<>>, ret |-> FALSE]

\* The ghost history with data appended, cut to its last max_horizon + 1
\* entries: the calls whose data the ring holds, and the one before them.
Remember(h, data) ==
    LET all == Append(h, data)
    IN  IF Len(all) <= max_horizon + 1 THEN all ELSE Tail(all)

\* A call of add with data, run to its return or raise.
AddCall(data, g) ==
    LET r == add(data, SelectSeq(KeyOrder, LAMBDA k : k \in DOMAIN data), g)
    IN  /\ _buffer' = r.buf
        /\ written' = r.wr
        /\ _pointer' = r.ptr
        /\ _horizon_length' = r.len
        /\ err' = r.err
        /\ op' = "add"
        /\ frame' = [NoLocals EXCEPT !.data = data]
        /\ n_adds' = IF r.err = "none" THEN n_adds + 1 ELSE n_adds
        /\ history' = IF r.err = "none" THEN Remember(history, data) ELSE history
        /\ passed' = passed \cup DOMAIN data

\* The caller calls add with one time slice, every array of shape [n_copys].
Add ==
    /\ op = "idle"
    /\ n_adds < MaxAdds
    /\ \E ks \in KeySets, g \in GarbageValues :
        AddCall(AddInput(ks, n_adds), g)
    /\ UNCHANGED <<config, n_mismatched, others>>

\* The caller calls add with a time slice one of whose arrays has another
\* shape: one entry, or one entry too many.
AddMismatched ==
    /\ op = "idle"
    /\ n_adds < MaxAdds
    /\ n_mismatched < MaxMismatched
    /\ \E ks \in KeySets, g \in GarbageValues :
        \E kf \in DataFields(AddInput(ks, n_adds)) :
            \E len \in {1, n_copys + 1} \ {n_copys} :
                AddCall(Reshaped(AddInput(ks, n_adds), kf[1], kf[2], n_adds, len), g)
    /\ n_mismatched' = n_mismatched + 1
    /\ UNCHANGED <<config, others>>

\* ------------------------------------------------------------------ sample
\* Python's truth value of an optional integer: None and 0 are falsy.
Truthy(arg) == arg # None /\ arg[1] # 0

\* B = batchsize or self.batch_size
SampleB(batchsize) == IF Truthy(batchsize) THEN batchsize[1] ELSE batch_size

\* T = timestep or self.time_step
SampleT(timestep) == IF Truthy(timestep) THEN timestep[1] ELSE time_step

\* The arguments the training loops pass: none, or a positive integer.
PositiveArgs == {None} \cup { Some(v) : v \in 1..MaxArg }

\* The arguments with an explicit 0 among them.
ZeroArgs == PositiveArgs \cup {Some(0)}

\* Mutant: after the wrap the lowest start index is one too high, and the
\* oldest window is never drawn.
SampleStartOffByOne ==
    IF _horizon_length = max_horizon THEN _pointer - max_horizon + 1 ELSE 0

\* Lines 85-88: the lowest start index.
SampleStart ==
    IF _horizon_length = max_horizon THEN _pointer - max_horizon ELSE 0

\* Mutant: randint's exclusive upper end is not compensated.
SampleEndExclusive(T) == _pointer - T

\* Mutant: the highest start index is counted from the fill counter, not
\* from the pointer.
SampleEndFill(T) == _horizon_length - T + 1

\* Line 89: one past the highest start index.
SampleEnd(T) == _pointer - T + 1

\* np.random.randint(low, high, B): every array of B integers of low..high-1
\* (none when low >= high: numpy raises ValueError).
Randint(low, high, B) == [0..(B - 1) -> low..(high - 1)]

\* Mutant: the window runs backwards from the start index.
GatherIdxBackwards(T, B, x) ==
    [t \in 0..(T - 1) |-> [b \in 0..(B - 1) |-> (x[b] - t) % _horizon_length]]

\* xs = (np.tile(np.arange(T)[:, np.newaxis], B) + x) % self._horizon_length
\* Python's % with a positive modulus is the floor modulus, as TLA+'s.
GatherIdx(T, B, x) ==
    [t \in 0..(T - 1) |-> [b \in 0..(B - 1) |-> (t + x[b]) % _horizon_length]]

\* Mutant: the gathered array is batch-major, [B, T].
GatherBatchMajor(arr, xs, y) ==
    [b \in DOMAIN y |-> [t \in DOMAIN xs |-> arr[xs[t][b]][y[b]]]]

\* _v[sample_idxs] with sample_idxs = (xs, y): numpy's advanced indexing,
\* out[t][b] = _v[xs[t][b]][y[b]], a new array.
Gather(arr, xs, y) ==
    [t \in DOMAIN xs |-> [b \in DOMAIN xs[t] |-> arr[xs[t][b]][y[b]]]]

\* True when the index pair (xs, y) is within the bounds of arr (xs is a
\* residue modulo the fill counter and y a draw from 0..n_copys-1: neither is
\* negative, so numpy's wrap of negative indices plays no part).
InBounds(arr, xs, y) ==
    \A t \in DOMAIN xs : \A b \in DOMAIN xs[t] :
        /\ xs[t][b] \in DOMAIN arr
        /\ y[b] \in DOMAIN arr[xs[t][b]]

\* Mutant: the 'global' record is gathered at copy 0 whatever y is.
SamplesGlobalCopy0(xs, y) ==
    [k \in DOMAIN _buffer |-> [f \in DOMAIN _buffer[k] |->
        Gather(_buffer[k][f], xs,
               IF k = "global" THEN [b \in DOMAIN y |-> 0] ELSE y)]]

\* Lines 97-101: the batch, with the key/field structure of the store.
Samples(xs, y) ==
    [k \in DOMAIN _buffer |-> [f \in DOMAIN _buffer[k] |->
        Gather(_buffer[k][f], xs, y)]]

\* Mutant: the window is checked against the capacity, not the fill counter.
SampleAssertCapacity(T) == T <= max_horizon

\* assert T <= self._horizon_length
SampleAssert(T) == T <= _horizon_length

\* The body of DataBuffer.sample(batchsize, timestep) up to its return or
\* raise: the call's locals and the exception it raised.
sample(batchsize, timestep) ==
    LET B  == SampleB(batchsize)
        T  == SampleT(timestep)
        f0 == [NoLocals EXCEPT !.batchsize = batchsize,
                               !.timestep = timestep, !.B = B, !.T = T]
    IN  IF ~SampleAssert(T)
        THEN /\ err' = "AssertionError"
             /\ frame' = f0
        ELSE IF SampleStart >= SampleEnd(T)
        THEN /\ err' = "ValueError"
             /\ frame' = f0
        ELSE \E x \in Randint(SampleStart, SampleEnd(T), B),
                y \in Randint(0, n_copys, B) :
                LET xs == GatherIdx(T, B, x)
                    f1 == [f0 EXCEPT !.x = x, !.y = y, !.xs = xs]
                IN  IF \A k \in DOMAIN _buffer : \A f \in DOMAIN _buffer[k] :
                           InBounds(_buffer[k][f], xs, y)
                    THEN /\ err' = "none"
                         /\ frame' = [f1 EXCEPT !.samples = Samples(xs, y)]
                    ELSE /\ err' = "IndexError"
                         /\ frame' = f1

\* A sample call with each argument left out or positive.
SampleCall ==
    /\ op = "idle"
    /\ op' = "sample"
    /\ \E batchsize \in PositiveArgs, timestep \in PositiveArgs :
        sample(batchsize, timestep)

\* Mutant: sampling consumes: a successful call takes T slots off the fill
\* counter.
SampleConsuming ==
    /\ SampleCall
    /\ _horizon_length' = IF err' = "none" THEN _horizon_length - frame'.T
                          ELSE _horizon_length
    /\ UNCHANGED <<config, _buffer, _pointer, ghost, others>>

\* DataBuffer.sample: the call and what it leaves alone.
Sample ==
    /\ SampleCall
    /\ UNCHANGED <<config, store, ghost, others>>

\* A sample call with an explicit 0 for at least one argument.
SampleZeroArg ==
    /\ op = "idle"
    /\ op' = "sample"
    /\ \E batchsize \in ZeroArgs, timestep \in ZeroArgs :
        /\ Some(0) \in {batchsize, timestep}
        /\ sample(batchsize, timestep)
    /\ UNCHANGED <<config, store, ghost, others>>

\* -------------------------------------------------------------- properties
\* Mutant: the window length is not taken off the fill counter.
CanSampleNoWindow == _horizon_length * n_copys >= batch_size

\* Mutant: the comparison is strict.
CanSampleStrict == (_horizon_length - time_step) * n_copys > batch_size

\* The property can_sample.
can_sample == (_horizon_length - time_step) * n_copys >= batch_size

\* Mutant: two keys are already 'multi'.
IsMultiTwoKeys == Cardinality(DOMAIN _buffer) >= 2

\* The property is_multi: len(self._buffer.keys()) > 2
is_multi == Cardinality(DOMAIN _buffer) > 2

\* The caller reads can_sample.
CanSample ==
    /\ op = "idle"
    /\ op' = "can_sample"
    /\ err' = "none"
    /\ frame' = [NoLocals EXCEPT !.ret = can_sample]
    /\ UNCHANGED <<config, store, ghost, others>>

\* The caller reads is_multi.
IsMulti ==
    /\ op = "idle"
    /\ op' = "is_multi"
    /\ err' = "none"
    /\ frame' = [NoLocals EXCEPT !.ret = is_multi]
    /\ UNCHANGED <<config, store, ghost, others>>

\* ------------------------------------------------------------------ init
BufferInit ==
    /\ n_copys \in 1..MaxCopys
    /\ batch_size \in 1..MaxBatch
    /\ buffer_size \in 1..MaxBufferSize
    /\ time_step \in 1..MaxT
    /\ max_horizon = buffer_size \div n_copys
    /\ _buffer = <<>>
    /\ _horizon_length = 0
    /\ _pointer = 0
    /\ op = "idle"
    /\ err = "none"
    /\ frame = NoLocals
    /\ written = <<>>
    /\ n_adds = 0
    /\ history = <<>>
    /\ passed = {}
    /\ n_mismatched = 0

\* No policy has been built around the buffer.
NoPolicy ==
    /\ agent_ids = <<>>
    /\ _is_train_mode = None
    /\ _store = None

\* No registry call is in progress.
NoRegCall == [op |-> "idle", name |-> "", attrs |-> None, ret |-> None, err |-> "none"]

\* AlgoRegistry.__init__: an empty registry.
NoRegistry ==
    /\ algo_specs = <<>>
    /\ reg_call = NoRegCall
    /\ first_attrs = <<>>

\* No get_obs call is in progress.
NoGetObs ==
    /\ pc = "idle"
    /\ n_agents = 0
    /\ ps = <<>>
    /\ done = <<>>
    /\ info_max_step = <<>>
    /\ info_real_done = <<>>
    /\ last_ds = 0
    /\ seen = <<>>
    /\ n_polls = 0
    /\ n_steps = 0

\* The wrapper with the default real_done=True, not called.
NoUnity == NoGetObs /\ _real_done = TRUE

\* The buffer alone, as its callers construct it.
Init == BufferInit /\ NoPolicy /\ NoRegistry /\ NoUnity

\* The caller takes the result (or the exception) and the call's frame is
\* gone: calls are serial, the buffer is used from one loop.
Return ==
    /\ op # "idle"
    /\ op' = "idle"
    /\ err' = "none"
    /\ frame' = NoLocals
    /\ UNCHANGED <<config, store, ghost, others>>

\* ------------------------------------------------------------------ policy
\* The agent ids a policy is built with, list(agent_specs.keys()): one
\* agent, or two in either order.
AgentIdLists == { <<"agent_0">>, <<"agent_0", "agent_1">>, <<"agent_1", "agent_0">> }

\* MarlPolicy.setup(is_train_mode, store)
Setup ==
    /\ op = "idle"
    /\ \E is_train_mode \in BOOLEAN, storing \in BOOLEAN :
        /\ _is_train_mode' = Some(is_train_mode)
        /\ _store' = Some(storing)
    /\ UNCHANGED <<core, agent_ids, registry, unity>>

\* The records episode_step builds on lines 122-132: one for every agent id,
\* then one under 'global'.
Expss(n) ==
    Slice(Range(agent_ids) \cup {"global"},
          [k \in Range(KeyOrder) |-> Range(FieldOrder(k))], n)

\* The order lines 123-130 insert the keys of expss in.
ExpssKeys == Append(agent_ids, "global")

\* The body of episode_step under `if self._store:` (lines 122-133): the one
\* call self._buffer.add(expss), run to its return or raise.
StoreStep(g) ==
    LET data == Expss(n_adds)
        r    == add(data, ExpssKeys, g)
    IN  /\ _buffer' = r.buf
        /\ written' = r.wr
        /\ _pointer' = r.ptr
        /\ _horizon_length' = r.len
        /\ err' = r.err
        /\ frame' = [NoLocals EXCEPT !.data = data]
        /\ n_adds' = IF r.err = "none" THEN n_adds + 1 ELSE n_adds
        /\ history' = IF r.err = "none" THEN Remember(history, data) ELSE history
        /\ passed' = passed \cup DOMAIN data

\* Mutant: the step stores whatever setup said.
EpisodeStepAlwaysStores ==
    /\ op = "idle"
    /\ _store # None
    /\ n_adds < MaxAdds
    /\ op' = "episode_step"
    /\ \E g \in GarbageValues : StoreStep(g)
    /\ UNCHANGED <<config, n_mismatched, others>>

\* MarlPolicy.episode_step(obs, acts, env_rets), called after setup.  The
\* base class's episode_step (line 120) and the reset of _pre_acts (lines
\* 135-137) keep no state of the buffer.
EpisodeStep ==
    /\ op = "idle"
    /\ _store # None
    /\ n_adds < MaxAdds
    /\ op' = "episode_step"
    /\ IF _store[1]
       THEN \E g \in GarbageValues : StoreStep(g)
       ELSE /\ err' = "none"
            /\ frame' = NoLocals
            /\ UNCHANGED <<store, written, n_adds, history, passed>>
    /\ UNCHANGED <<config, n_mismatched, others>>

\* A policy around a buffer: the buffer of _build_buffer, the agent ids of
\* agent_specs, setup not yet called.
InitPolicy ==
    /\ BufferInit
    /\ batch_size = 1
    /\ time_step = 1
    /\ agent_ids \in AgentIdLists
    /\ _is_train_mode = None
    /\ _store = None
    /\ NoRegistry
    /\ NoUnity

NextPolicy == Setup \/ EpisodeStep \/ IsMulti \/ Return

SpecPolicy == InitPolicy /\ [][NextPolicy]_vars

\* ---------------------------------------------------------------- registry
\* The algorithm names and the attrs (keyword arguments) of register calls.
AlgoNames == {"dqn", "ppo", "qmix"}

AlgoAttrs ==
    { [algo_class |-> "DQN", policy_mode |-> "off-policy", is_multi |-> FALSE],
      [algo_class |-> "PPO", policy_mode |-> "on-policy", is_multi |-> FALSE] }

\* specs with attrs stored under name: self.algo_specs[name] = dict(attrs)
SetItem(specs, name, attrs) ==
    [n \in DOMAIN specs \cup {name} |-> IF n = name THEN attrs ELSE specs[n]]

\* register without the test of line 25: a later registration replaces the
\* first.
RegisterOverwrites(specs, name, attrs) ==
    [specs |-> SetItem(specs, name, attrs), err |-> "none"]

\* AlgoRegistry.register(name, **attrs): the registry after the call, and
\* the exception raised.
register(specs, name, attrs) ==
    IF name \in DOMAIN specs
    THEN [specs |-> specs, err |-> "Exception"]
    ELSE [specs |-> SetItem(specs, name, attrs), err |-> "none"]

\* AlgoRegistry.get_model_info(name): the value returned, and the exception
\* raised.
get_model_info(specs, name) ==
    IF name \in DOMAIN specs
    THEN [ret |-> Some(specs[name]), err |-> "none"]
    ELSE [ret |-> None, err |-> "Exception"]

Register ==
    /\ reg_call.op = "idle"
    /\ \E name \in AlgoNames, attrs \in AlgoAttrs :
        LET r == register(algo_specs, name, attrs)
        IN  /\ algo_specs' = r.specs
            /\ reg_call' = [op |-> "register", name |-> name, attrs |-> Some(attrs),
                            ret |-> None, err |-> r.err]
            /\ first_attrs' = IF name \in DOMAIN first_attrs THEN first_attrs
                              ELSE SetItem(first_attrs, name, attrs)
    /\ UNCHANGED <<core, policy, unity>>

GetModelInfo ==
    /\ reg_call.op = "idle"
    /\ \E name \in AlgoNames :
        LET r == get_model_info(algo_specs, name)
        IN  reg_call' = [op |-> "get_model_info", name |-> name, attrs |-> None,
                         ret |-> r.ret, err |-> r.err]
    /\ UNCHANGED <<core, policy, unity, algo_specs, first_attrs>>

\* The caller of the registry takes the result or the exception.
RegReturn ==
    /\ reg_call.op # "idle"
    /\ reg_call' = NoRegCall
    /\ UNCHANGED <<core, policy, unity, algo_specs, first_attrs>>

\* The module's registry, beside a buffer that is not used.
InitRegistry ==
    /\ BufferInit
    /\ n_copys = 1 /\ batch_size = 1 /\ buffer_size = 1 /\ time_step = 1
    /\ NoPolicy
    /\ NoRegistry
    /\ NoUnity

NextRegistry == Register \/ GetModelInfo \/ RegReturn

SpecRegistry == InitRegistry /\ [][NextRegistry]_vars

\* ------------------------------------------------------------------- unity
\* A terminal-step batch ts gives, for each agent it reports, the agent's
\* interrupted flag; len(ts) is the number of its agents.  Agent ids are
\* their indexes 0..n-1.
Batches(n) == UNION { [S -> BOOLEAN] : S \in SUBSET (0..(n - 1)) }

\* Lines 215-216 keeping only the latest batch.
RecordLatest(p, ts) == IF Cardinality(DOMAIN ts) # 0 THEN <<ts>> ELSE p

\* Lines 215-216: if len(ts): ps.append(ts)
Record(p, ts) == IF Cardinality(DOMAIN ts) # 0 THEN Append(p, ts) ELSE p

\* Lines 227-229: np.full(n, False)
AllFalse(n) == [i \in 0..(n - 1) |-> FALSE]

\* Lines 232-236 for one batch, on st = [done, info_max_step,
\* info_real_done]: the batch's agents get their interrupted flag in
\* info_max_step, the ones not interrupted are set in info_real_done, and all
\* of them are set in done.
ApplyTs(st, ts) ==
    [done |-> [i \in DOMAIN st.done |-> IF i \in DOMAIN ts THEN TRUE ELSE st.done[i]],
     info_max_step |-> [i \in DOMAIN st.info_max_step |->
                          IF i \in DOMAIN ts THEN ts[i] ELSE st.info_max_step[i]],
     info_real_done |-> [i \in DOMAIN st.info_real_done |->
                          IF i \in DOMAIN ts /\ ~ts[i] THEN TRUE ELSE st.info_real_done[i]]]

\* Lines 231-239: for ts in ps, in order.
RECURSIVE ApplyAll(_, _)
ApplyAll(st, p) == IF p = <<>> THEN st ELSE ApplyAll(ApplyTs(st, Head(p)), Tail(p))

\* Lines 227-242: the three arrays after the batches of p are applied and,
\* with _real_done, done is replaced by info_real_done.
AfterLoop(n, p) ==
    LET st == ApplyAll([done |-> AllFalse(n), info_max_step |-> AllFalse(n),
                        info_real_done |-> AllFalse(n)], p)
    IN  IF _real_done THEN [st EXCEPT !.done = st.info_real_done] ELSE st

\* Lines 208-211: get_obs enters the loop for a behaviour with n agents.
GetObs ==
    /\ pc = "idle"
    /\ pc' = "poll"
    /\ n_agents' \in 0..MaxAgents
    /\ ps' = <<>>
    /\ UNCHANGED <<core, policy, registry, _real_done, done, info_max_step,
                   info_real_done, last_ds, seen, n_polls, n_steps>>

\* Lines 213-223, and 225-242 after the break: one poll of the loop.  The
\* environment reports len(ds) decision steps and the batch ts; it reports
\* no decision step at most MaxZeroPolls times in a row.
Poll ==
    /\ pc = "poll"
    /\ \E len_ds \in 0..MaxAgents, ts \in Batches(n_agents) :
        /\ (len_ds = 0 /\ n_agents # 0) => n_steps < MaxZeroPolls
        /\ last_ds' = len_ds
        /\ n_polls' = n_polls + 1
        /\ seen' = IF DOMAIN ts # {} THEN Append(seen, ts) ELSE seen
        /\ ps' = Record(ps, ts)
        /\ IF len_ds = n_agents
           THEN /\ pc' = "done"
                /\ done' = AfterLoop(n_agents, ps').done
                /\ info_max_step' = AfterLoop(n_agents, ps').info_max_step
                /\ info_real_done' = AfterLoop(n_agents, ps').info_real_done
                /\ n_steps' = n_steps
           ELSE IF len_ds = 0
           THEN /\ pc' = "poll"
                /\ n_steps' = n_steps + 1
                /\ UNCHANGED <<done, info_max_step, info_real_done>>
           ELSE /\ pc' = "raised"
                /\ UNCHANGED <<done, info_max_step, info_real_done, n_steps>>
    /\ UNCHANGED <<core, policy, registry, n_agents, _real_done>>

\* The caller takes the observations built from these arrays (lines
\* 244-262), or the ValueError.
GetObsReturn ==
    /\ pc \in {"done", "raised"}
    /\ pc' = "idle"
    /\ n_agents' = 0
    /\ ps' = <<>>
    /\ done' = <<>>
    /\ info_max_step' = <<>>
    /\ info_real_done' = <<>>
    /\ last_ds' = 0
    /\ seen' = <<>>
    /\ n_polls' = 0
    /\ n_steps' = 0
    /\ UNCHANGED <<core, policy, registry, _real_done>>

\* The wrapper's loop, beside a buffer that is not used; real_done is the
\* constructor's argument.
InitUnity ==
    /\ BufferInit
    /\ n_copys = 1 /\ batch_size = 1 /\ buffer_size = 1 /\ time_step = 1
    /\ NoPolicy
    /\ NoRegistry
    /\ NoGetObs
    /\ _real_done \in BOOLEAN

NextUnity == GetObs \/ Poll \/ GetObsReturn

\* get_steps and env.step return, so a poll that can be made is made.
SpecUnity == InitUnity /\ [][NextUnity]_vars /\ WF_vars(Poll)

Next == Add \/ Sample \/ CanSample \/ IsMulti \/ Return

Spec == Init /\ [][Next]_vars

\* The buffer called with arguments outside the callers' habit: add with an
\* array of another shape.
NextShapes == Add \/ AddMismatched \/ IsMulti \/ Return

\* add reads neither batch_size nor time_step: one value of each is enough.
InitShapes == Init /\ batch_size = 1 /\ time_step = 1

SpecShapes == InitShapes /\ [][NextShapes]_vars

\* And sample with an explicit 0.
NextArgs == Next \/ SampleZeroArg

SpecArgs == Init /\ [][NextArgs]_vars

\* The documented example: a buffer of 2 copies, batches of 4, 8 cells and
\* windows of 2 steps (max_horizon 4).
InitExample ==
    /\ n_copys = 2
    /\ batch_size = 4
    /\ buffer_size = 8
    /\ time_step = 2
    /\ max_horizon = buffer_size \div n_copys
    /\ _buffer = <<>>
    /\ _horizon_length = 0
    /\ _pointer = 0
    /\ op = "idle"
    /\ err = "none"
    /\ frame = NoLocals
    /\ written = <<>>
    /\ n_adds = 0
    /\ history = <<>>
    /\ passed = {}
    /\ n_mismatched = 0
    /\ NoPolicy
    /\ NoRegistry
    /\ NoUnity

\* The buffer of every bounded configuration, and that of the example.
SpecExample == (Init \/ InitExample) /\ [][Next]_vars

\* ------------------------------------------------------------------ claims
\* The number of successful add calls so far.
NumAdds == n_adds

\* The data of the add call with 0-based number j, one of the last
\* max_horizon + 1 successful calls.
DataOf(j) == history[j - (n_adds - Len(history)) + 1]

\* Every remembered add call carried the same keys (and so the same fields).
SameKeys == \A i \in 1..Len(history) : DOMAIN history[i] = DOMAIN history[1]

\* The call in progress is a sample call that returned a batch.
Sampled == op = "sample" /\ err = "none"

\* Every (key, field) pair of the store.
StoreFields == UNION { {k} \X DOMAIN _buffer[k] : k \in DOMAIN _buffer }

\* C1: after N <= max_horizon add calls with the same keys and fields, every
\* time slot a sample call gathers (any window length T <= fill, any draw) is
\* one of the N slots 0..N-1 already written, in every field: no slot that
\* np.empty left uninitialised is returned.
C1_OnlyWrittenSlots ==
    (Sampled /\ SameKeys /\ 1 <= NumAdds /\ NumAdds <= max_horizon) =>
        \A t \in DOMAIN frame.xs : \A b \in DOMAIN frame.xs[t] :
            /\ frame.xs[t][b] \in 0..(NumAdds - 1)
            /\ \A kf \in StoreFields : frame.xs[t][b] \in written[kf[1]][kf[2]]

\* A batch was sampled with T = 1 after 2 of at least 3 possible add calls.
C1_Witness ==
    /\ Sampled /\ SameKeys
    /\ NumAdds = 2 /\ max_horizon >= 3
    /\ frame.T = 1 /\ frame.xs[0][0] = 1

\* C2: after N successful add calls on a fresh buffer with max_horizon >= 1
\* the pointer is N mod max_horizon and the fill counter is
\* min(N, max_horizon).
C2_PointerAndFill ==
    max_horizon >= 1 =>
        /\ _pointer = NumAdds % max_horizon
        /\ _horizon_length = Min(NumAdds, max_horizon)

\* The ring has wrapped and the pointer has moved on from 0 again.
C2_Witness ==
    /\ op = "add" /\ err = "none"
    /\ max_horizon >= 2 /\ NumAdds = max_horizon + 1
    /\ _pointer = 1 /\ _horizon_length = max_horizon

\* C3: after exactly max_horizon add calls the pointer is back at 0, and the
\* add call after that stores its data in slot 0, in place of what the first
\* add call stored there.
C3_RingWrap ==
    /\ (max_horizon >= 1 /\ NumAdds = max_horizon) => _pointer = 0
    /\ (max_horizon >= 1 /\ NumAdds = max_horizon + 1) =>
        \A kf \in DataFields(DataOf(max_horizon)) :
            /\ _buffer[kf[1]][kf[2]][0] = DataOf(max_horizon)[kf[1]][kf[2]]
            /\ kf \in DataFields(DataOf(0)) =>
                   _buffer[kf[1]][kf[2]][0] # DataOf(0)[kf[1]][kf[2]]

\* The add call after the wrap has just returned, in a ring of several slots.
C3_Witness ==
    /\ op = "add" /\ err = "none"
    /\ max_horizon >= 2 /\ NumAdds = max_horizon + 1
    /\ _buffer["agent_0"]["obs"][0] = DataOf(max_horizon)["agent_0"]["obs"]

\* Every slot of the filled region is tagged: at each (slot, copy) all fields
\* of all keys hold the same marker, and no two (slot, copy) pairs share one.
AllTagged ==
    LET cells == (0..(_horizon_length - 1)) \X (0..(n_copys - 1))
        kf0   == CHOOSE kf \in StoreFields : TRUE
        a0    == _buffer[kf0[1]][kf0[2]]
    IN  /\ StoreFields # {}
        /\ \A k \in DOMAIN _buffer : \A f \in DOMAIN _buffer[k] : \A sc \in cells :
               MarkerOf(_buffer[k][f][sc[1]][sc[2]]) = MarkerOf(a0[sc[1]][sc[2]])
        /\ \A sc1 \in cells : \A sc2 \in cells :
               sc1 # sc2 => MarkerOf(a0[sc1[1]][sc1[2]]) # MarkerOf(a0[sc2[1]][sc2[2]])

\* C4: within one sample call every field of every key is gathered with the
\* same (time slot, copy) index pair at every position (t, b); when every
\* slot is tagged with a marker unique per (add call, copy), all fields of all
\* keys carry the same marker at every (t, b) of the batch.
C4_CrossFieldAlignment ==
    Sampled =>
        /\ \A t \in 0..(frame.T - 1) : \A b \in 0..(frame.B - 1) :
               \E s \in 0..(_horizon_length - 1) : \E c \in 0..(n_copys - 1) :
                   \A k \in DOMAIN _buffer : \A f \in DOMAIN _buffer[k] :
                       frame.samples[k][f][t][b] = _buffer[k][f][s][c]
        /\ AllTagged =>
               LET kf0 == CHOOSE kf \in StoreFields : TRUE
                   s0  == frame.samples[kf0[1]][kf0[2]]
               IN  \A k \in DOMAIN _buffer : \A f \in DOMAIN _buffer[k] :
                       \A t \in 0..(frame.T - 1) : \A b \in 0..(frame.B - 1) :
                           MarkerOf(frame.samples[k][f][t][b]) = MarkerOf(s0[t][b])

\* A batch of two windows of two steps drawn at different copies from a
\* tagged store of three keys.
C4_Witness ==
    /\ Sampled /\ AllTagged
    /\ Cardinality(DOMAIN _buffer) = 3
    /\ frame.T = 2 /\ frame.B = 2
    /\ frame.y[0] # frame.y[1]

\* The start indices the claim states for window length T.
ClaimedStarts(T) ==
    IF _horizon_length = max_horizon
    THEN (_pointer - max_horizon)..(_pointer - T)
    ELSE 0..(_pointer - T)

\* C5: for T <= fill the start indices sample can draw are exactly
\* pointer - max_horizon .. pointer - T when fill = max_horizon and exactly
\* 0 .. pointer - T otherwise, and this range is not empty: every drawn start
\* lies in it, every index of it can be drawn, and randint never raises.
C5_StartRange ==
    /\ Sampled => \A b \in DOMAIN frame.x : frame.x[b] \in ClaimedStarts(frame.T)
    /\ op = "sample" => err # "ValueError"
    /\ \A T \in 1..MaxT :
        (op = "idle" /\ T <= _horizon_length) =>
            /\ { x[0] : x \in Randint(SampleStart, SampleEnd(T), 1) } = ClaimedStarts(T)
            /\ ClaimedStarts(T) # {}

\* A window of two steps was drawn at the lowest start of a wrapped ring, where
\* the start index is negative.
C5_Witness ==
    /\ Sampled
    /\ _horizon_length = max_horizon /\ _pointer >= 1
    /\ frame.T = 2
    /\ frame.x[0] = _pointer - max_horizon

\* C6: the sample with drawn start x and drawn copy c gathers the time slots
\* (x + t) mod fill for t = 0..T-1, all at copy c, in every field.
C6_WindowIndices ==
    Sampled =>
        /\ \A t \in 0..(frame.T - 1) : \A b \in 0..(frame.B - 1) :
               frame.xs[t][b] = (frame.x[b] + t) % _horizon_length
        /\ \A k \in DOMAIN _buffer : \A f \in DOMAIN _buffer[k] :
               \A t \in 0..(frame.T - 1) : \A b \in 0..(frame.B - 1) :
                   frame.samples[k][f][t][b] =
                       _buffer[k][f][(frame.x[b] + t) % _horizon_length][frame.y[b]]

\* A window of two steps that wraps from the last filled slot to slot 0, at
\* copy 1.
C6_Witness ==
    /\ Sampled
    /\ frame.T = 2
    /\ frame.xs[0][0] = _horizon_length - 1 /\ frame.xs[1][0] = 0
    /\ frame.y[0] = 1

\* C7: a sample call whose window length T exceeds the fill counter raises
\* AssertionError, returns no batch, and leaves the store contents, the
\* pointer and the fill counter as they were.
C7_InsufficientData ==
    [][ (op' = "sample" /\ frame'.T > _horizon_length) =>
            /\ err' = "AssertionError"
            /\ frame'.samples = <<>>
            /\ UNCHANGED store ]_vars

\* A sample call failed on a buffer that holds data, with a window within the
\* capacity.
C7_Witness ==
    /\ op = "sample" /\ err = "AssertionError"
    /\ _horizon_length >= 1
    /\ frame.T > _horizon_length /\ frame.T <= max_horizon

\* C8: a sample call, successful or failing, with any arguments, leaves the
\* store contents of every key/field, the pointer, the fill counter, the key
\* set and the configuration unchanged.
C8_SampleReadOnly ==
    [][ op' = "sample" =>
            /\ UNCHANGED <<_buffer, _pointer, _horizon_length>>
            /\ DOMAIN _buffer' = DOMAIN _buffer
            /\ UNCHANGED <<n_copys, batch_size, buffer_size, time_step, max_horizon>> ]_vars

\* A sample call returned a batch from a buffer that holds data.
C8_Witness ==
    /\ Sampled
    /\ _horizon_length >= 2
    /\ frame.batchsize # None /\ frame.timestep = None /\ frame.T = 2

\* The 0-based number of the latest of the first n add calls that wrote slot i.
LatestCall(i, n) ==
    CHOOSE j \in 0..(n - 1) :
        /\ j % max_horizon = i
        /\ \A j2 \in 0..(n - 1) : j2 % max_horizon = i => j2 <= j

\* C9: after N >= max_horizon add calls, slot i of the store holds the data of
\* the latest add call whose 0-based number is congruent to i modulo
\* max_horizon: the ring is a sliding window of the last max_horizon calls.
C9_SlidingWindow ==
    (max_horizon >= 1 /\ NumAdds >= max_horizon) =>
        \A i \in 0..(max_horizon - 1) :
            LET data == DataOf(LatestCall(i, NumAdds))
            IN  /\ LatestCall(i, NumAdds) >= NumAdds - max_horizon
                /\ \A kf \in DataFields(data) :
                       _buffer[kf[1]][kf[2]][i] = data[kf[1]][kf[2]]

\* Two slots of a ring of at least three have been overwritten.
C9_Witness ==
    /\ op = "add" /\ err = "none"
    /\ max_horizon >= 3 /\ NumAdds = max_horizon + 2

\* C10: a successful add call writes data[key][field], for every key/field
\* pair of the call, into the slot the pointer indexed before the call, and
\* leaves every other slot of every field unchanged.
C10_AddWritesOneSlot ==
    [][ (op' = "add" /\ err' = "none") =>
            /\ \A kf \in DataFields(frame'.data) :
                   _buffer'[kf[1]][kf[2]][_pointer] = frame'.data[kf[1]][kf[2]]
            /\ \A kf \in StoreFields :
                   \A s \in (DOMAIN _buffer[kf[1]][kf[2]]) \ {_pointer} :
                       _buffer'[kf[1]][kf[2]][s] = _buffer[kf[1]][kf[2]][s] ]_vars

\* An add call wrote slot 1 of a ring whose other slots hold earlier data.
C10_Witness ==
    /\ op = "add" /\ err = "none"
    /\ max_horizon >= 3 /\ NumAdds = 2
    /\ _pointer = 2
    /\ _buffer["global"]["begin_mask"][1] = frame.data["global"]["begin_mask"]

\* C11: with positive n_copys, batch_size and time_step, a read of can_sample
\* returns false whenever the fill counter is below time_step, and true
\* whenever (fill - time_step) * n_copys >= batch_size.
C11_CanSampleBounds ==
    op = "can_sample" =>
        /\ _horizon_length < time_step => frame.ret = FALSE
        /\ (_horizon_length - time_step) * n_copys >= batch_size => frame.ret = TRUE

\* can_sample was read with data stored but less than one window of it.
C11_Witness ==
    /\ op = "can_sample"
    /\ 1 <= _horizon_length /\ _horizon_length < time_step
    /\ frame.ret = FALSE

\* The number of distinct (start, copy) pairs a sample call with the default
\* window can draw: none when the call fails its assertion.
Combos ==
    IF SampleAssert(time_step)
    THEN Cardinality((SampleStart..(SampleEnd(time_step) - 1)) \X (0..(n_copys - 1)))
    ELSE 0

\* C12 as claimed: can_sample is true exactly when the number of distinct
\* (start, copy) combinations a default sample call can draw is at least
\* batch_size.
C12_Claimed ==
    op = "can_sample" => (frame.ret <=> Combos >= batch_size)

\* C12, amended: can_sample is true exactly when the number of distinct
\* (start, copy) combinations a default sample call can draw, less the
\* n_copys combinations of one start index, is at least batch_size.
C12_CombosLessOneStart ==
    op = "can_sample" => (frame.ret <=> Combos - n_copys >= batch_size)

\* can_sample was read as false with batch_size combinations to draw from.
C12_Witness ==
    /\ op = "can_sample"
    /\ frame.ret = FALSE
    /\ Combos >= batch_size

\* C13: when can_sample is true, a sample call with the default arguments
\* finds time_step <= fill: it does not fail with the insufficient-data
\* assertion.
C13_CanSampleThenSample ==
    [][ (can_sample /\ op' = "sample"
            /\ frame'.batchsize = None /\ frame'.timestep = None) =>
            /\ time_step <= _horizon_length
            /\ err' # "AssertionError" ]_vars

\* A default sample call returned a batch from a buffer whose can_sample is
\* true.
C13_Witness ==
    /\ Sampled
    /\ frame.batchsize = None /\ frame.timestep = None
    /\ can_sample

\* The buffer is the one of the documented example.
IsExample ==
    n_copys = 2 /\ batch_size = 4 /\ buffer_size = 8 /\ time_step = 2

\* C14: a successful sample call with window T and batch B returns a mapping
\* with the top-level keys of the store and, under each key, the store's
\* fields; every field's array has T rows of B entries.  In the example
\* (n_copys 2, batch_size 4, buffer_size 8, time_step 2) a default call after
\* 4 add calls returns arrays of 2 rows of 4 entries whose time indices are
\* among the 4 stored slots 0..3.
C14_SampleShape ==
    Sampled =>
        /\ DOMAIN frame.samples = DOMAIN _buffer
        /\ \A k \in DOMAIN _buffer :
            /\ DOMAIN frame.samples[k] = DOMAIN _buffer[k]
            /\ \A f \in DOMAIN _buffer[k] :
                /\ DOMAIN frame.samples[k][f] = 0..(frame.T - 1)
                /\ \A t \in 0..(frame.T - 1) :
                    DOMAIN frame.samples[k][f][t] = 0..(frame.B - 1)
        /\ (IsExample /\ NumAdds = 4
                /\ frame.batchsize = None /\ frame.timestep = None) =>
            /\ frame.T = 2 /\ frame.B = 4
            /\ \A t \in DOMAIN frame.xs : \A b \in DOMAIN frame.xs[t] :
                frame.xs[t][b] \in 0..3

\* The example: a default sample call returned after 4 add calls, one of its
\* windows starting at the newest slot but one.
C14_Witness ==
    /\ Sampled /\ IsExample /\ NumAdds = 4
    /\ frame.batchsize = None /\ frame.timestep = None
    /\ DOMAIN _buffer = {"agent_0", "global"}
    /\ frame.xs[0][0] = 2 /\ frame.xs[1][0] = 3 /\ frame.xs[0][3] = 0

\* The shape of some array of data differs from that of the store's array of
\* the same key and field, as its first add call allocated it.
Mismatched(data) ==
    /\ max_horizon > 0
    /\ \E k \in DOMAIN data \cap DOMAIN _buffer :
        \E f \in DOMAIN data[k] \cap DOMAIN _buffer[k] :
            DOMAIN data[k][f] # DOMAIN _buffer[k][f][0]

\* C15: an add call whose array for an existing key and field differs in
\* shape from the original allocation fails with an error: it is never
\* accepted silently, by broadcasting a smaller shape.
C15_MismatchFails ==
    [][ (op' = "add" /\ Mismatched(frame'.data)) => err' # "none" ]_vars

\* C16: add is all-or-nothing: an add call that raises partway leaves the
\* stored contents, the key/field set, the pointer and the fill counter as
\* they were before the call.
C16_AllOrNothing ==
    [][ (op' = "add" /\ err' # "none") =>
            UNCHANGED <<_buffer, _pointer, _horizon_length>> ]_vars

\* C17 as claimed: is_multi is true exactly when more than two distinct
\* top-level keys were ever passed to add.
C17_Claimed ==
    op = "is_multi" => (frame.ret <=> Cardinality(passed) > 2)

\* C17, amended: is_multi is true exactly when the store tracks more than two
\* top-level keys.  The tracked keys are among the keys passed to add and
\* include the keys of every add call that returned; one agent key and
\* 'global' give false, two agent keys and 'global' give true.
C17_IsMultiTracked ==
    op = "is_multi" =>
        /\ frame.ret <=> Cardinality(DOMAIN _buffer) > 2
        /\ DOMAIN _buffer \subseteq passed
        /\ \A i \in 1..Len(history) : DOMAIN history[i] \subseteq DOMAIN _buffer
        /\ DOMAIN _buffer = {"agent_0", "global"} => frame.ret = FALSE
        /\ DOMAIN _buffer = {"agent_0", "agent_1", "global"} => frame.ret = TRUE

\* is_multi was read as false after add, on a buffer that has room, was
\* passed three keys.
C17_Witness ==
    /\ op = "is_multi"
    /\ frame.ret = FALSE
    /\ Cardinality(passed) > 2
    /\ max_horizon > 0

\* C18: a sample call uses every supplied batchsize b and timestep t, and the
\* constructor's value only for an argument not supplied: it draws exactly B
\* starts and B copies, every copy in 0..n_copys-1.
C18_SuppliedArgsUsed ==
    op = "sample" =>
        /\ frame.B = IF frame.batchsize = None THEN batch_size ELSE frame.batchsize[1]
        /\ frame.T = IF frame.timestep = None THEN time_step ELSE frame.timestep[1]
        /\ err = "none" =>
            /\ DOMAIN frame.x = 0..(frame.B - 1)
            /\ DOMAIN frame.y = 0..(frame.B - 1)
            /\ DOMAIN frame.xs = 0..(frame.T - 1)
            /\ \A b \in DOMAIN frame.y : frame.y[b] \in 0..(n_copys - 1)

\* C20: at every reachable state, whatever keys and fields the add calls
\* carried, all fields of the store have the same set of written slots, and
\* every slot of the filled region has been written in every field.
C20_Lockstep ==
    \A kf \in StoreFields :
        /\ \A kf2 \in StoreFields : written[kf[1]][kf[2]] = written[kf2[1]][kf2[2]]
        /\ 0..(_horizon_length - 1) \subseteq written[kf[1]][kf[2]]

\* The shape of an array of the store: its time axis and the axis of each row.
ShapeOf(arr) == [s \in DOMAIN arr |-> DOMAIN arr[s]]

\* What no step does to the arrays already allocated: none is dropped,
\* reshaped or replaced (an add call changes at most the slot at the pointer),
\* and every array has max_horizon time slots; an array enters the store only
\* in an add call that carries its key and field.
AllocationKept ==
    /\ \A kf \in StoreFields :
        /\ kf[1] \in DOMAIN _buffer' /\ kf[2] \in DOMAIN _buffer'[kf[1]]
        /\ ShapeOf(_buffer'[kf[1]][kf[2]]) = ShapeOf(_buffer[kf[1]][kf[2]])
        /\ \A s \in DOMAIN _buffer[kf[1]][kf[2]] :
            s # _pointer => _buffer'[kf[1]][kf[2]][s] = _buffer[kf[1]][kf[2]][s]
    /\ \A k \in DOMAIN _buffer' : \A f \in DOMAIN _buffer'[k] :
        /\ DOMAIN _buffer'[k][f] = 0..(max_horizon - 1)
        /\ (k \notin DOMAIN _buffer \/ f \notin DOMAIN _buffer[k]) =>
            /\ op' = "add"
            /\ k \in DOMAIN frame'.data /\ f \in DOMAIN frame'.data[k]

\* Every key and field of data has an array in the store after the step.
AllAllocated(data) ==
    \A k \in DOMAIN data :
        /\ k \in DOMAIN _buffer'
        /\ \A f \in DOMAIN data[k] : f \in DOMAIN _buffer'[k]

\* C21 as claimed: every field store is allocated exactly once, on the first
\* add call that contains its key and field (so every add call leaves all of
\* its keys and fields allocated), with max_horizon time slots; its shape
\* never changes and no allocated key/field is ever dropped.
C21_Claimed ==
    [][ /\ AllocationKept
        /\ op' = "add" => AllAllocated(frame'.data) ]_vars

\* C21, amended: every field store is allocated exactly once, by the first
\* add call whose loop reaches its key and field (every add call that returns
\* leaves all of its keys and fields allocated; one that raises allocates
\* only what it reached), with max_horizon time slots; its shape never
\* changes and no allocated key/field is ever dropped.
C21_AllocatedOnce ==
    [][ /\ AllocationKept
        /\ (op' = "add" /\ err' = "none") => AllAllocated(frame'.data) ]_vars

\* An add call raised on a buffer with room, before it reached one of the
\* keys it carried.
C21_Witness ==
    /\ op = "add" /\ err = "ValueError"
    /\ max_horizon > 0
    /\ \E k \in DOMAIN frame.data : k \notin DOMAIN _buffer

\* C22: for every positive buffer_size and n_copys, max_horizon * n_copys
\* equals buffer_size: the ring holds exactly buffer_size transitions, not
\* fewer when n_copys does not divide buffer_size and not none when
\* buffer_size < n_copys.
C22_ExactCapacity ==
    (buffer_size > 0 /\ n_copys > 0) => max_horizon * n_copys = buffer_size

\* C23: every sampled window is chronological, before and after the wrap: its
\* T slots were last written by T consecutive add calls, in call order, and
\* the batch holds those calls' data; no window runs from the newest slot
\* across the pointer into the oldest.
C23_Chronological ==
    Sampled =>
        \A b \in DOMAIN frame.x :
            /\ \A t \in 0..(frame.T - 2) :
                LatestCall(frame.xs[t + 1][b], NumAdds)
                    = LatestCall(frame.xs[t][b], NumAdds) + 1
            /\ \A t \in 0..(frame.T - 1) :
                LET d == DataOf(LatestCall(frame.xs[t][b], NumAdds))
                IN  \A kf \in DataFields(d) :
                        frame.samples[kf[1]][kf[2]][t][b] = d[kf[1]][kf[2]][frame.y[b]]

\* After the wrap, a window of two steps was sampled that runs from the last
\* slot of the arrays into slot 0.
C23_Witness ==
    /\ Sampled
    /\ _horizon_length = max_horizon /\ max_horizon >= 3 /\ _pointer >= 1
    /\ frame.T = 2
    /\ frame.xs[0][0] = max_horizon - 1 /\ frame.xs[1][0] = 0

\* The start indices a sample call with window T draws from.
Starts(T) == SampleStart..(SampleEnd(T) - 1)

\* The slots of the window that start index x denotes, in order.
WindowOf(x, T) ==
    LET xs == GatherIdx(T, 1, [b \in {0} |-> x])
    IN  [t \in 0..(T - 1) |-> xs[t][0]]

\* C24: in every reachable state and for every T <= fill, a sample call has
\* exactly fill - T + 1 possible windows, distinct start indices denote
\* distinct windows, and the windows together cover every retained slot (all
\* of 0..fill-1, the newest slot pointer-1 and every written slot among them).
C24_EverySliceSampleable ==
    \A T \in 1.._horizon_length :
        LET covered == UNION { Range(WindowOf(x, T)) : x \in Starts(T) }
        IN  /\ Cardinality(Starts(T)) = _horizon_length - T + 1
            /\ \A x1, x2 \in Starts(T) :
                x1 # x2 => WindowOf(x1, T) # WindowOf(x2, T)
            /\ covered = 0..(_horizon_length - 1)
            /\ (_pointer - 1) % max_horizon \in covered
            /\ \A kf \in StoreFields : written[kf[1]][kf[2]] \subseteq covered

\* After the wrap, a sampled window of two steps ends at the newest slot.
C24_Witness ==
    /\ Sampled
    /\ _horizon_length = max_horizon /\ _pointer >= 2
    /\ frame.T = 2
    /\ frame.xs[1][0] = _pointer - 1

\* The least integer not below a / b.
Ceil(a, b) == (a + b - 1) \div b

\* C25: when (max_horizon - time_step) * n_copys >= batch_size, add calls keep
\* succeeding and can_sample is true exactly from the add call number
\* time_step + ceil(batch_size / n_copys) on; otherwise can_sample is false in
\* every reachable state.
C25_CanSampleEventually ==
    LET K == time_step + Ceil(batch_size, n_copys)
    IN  /\ (max_horizon - time_step) * n_copys >= batch_size =>
            (can_sample <=> NumAdds >= K)
        /\ (max_horizon - time_step) * n_copys < batch_size => ~can_sample
        /\ (op = "add" /\ max_horizon > 0) => err = "none"
        /\ op = "can_sample" => frame.ret = can_sample

\* can_sample was read as true right after the add call that made it true,
\* with a batch smaller than the number of copies.
C25_Witness ==
    /\ op = "can_sample" /\ frame.ret = TRUE
    /\ n_copys = 2 /\ batch_size = 1
    /\ NumAdds = time_step + 1

\* C26: the fill counter never decreases and, once equal to max_horizon,
\* stays there; can_sample and is_multi, once true, stay true over every
\* further add and sample call.
C26_Monotone ==
    [][ /\ _horizon_length' >= _horizon_length
        /\ _horizon_length = max_horizon => _horizon_length' = max_horizon
        /\ can_sample => can_sample'
        /\ is_multi => is_multi' ]_vars

\* A sample call returned on a full ring that has wrapped, with can_sample
\* and is_multi both true.
C26_Witness ==
    /\ Sampled
    /\ can_sample /\ is_multi
    /\ _horizon_length = max_horizon /\ NumAdds > max_horizon

\* C27: an add call that raises while writing a field leaves the pointer and
\* the fill counter as they were, and nothing but add moves them; a successful
\* add call writes the slot at the pointer in every field it carries.  So
\* the next successful add call writes the slot the failed call was aiming at.
C27_FailedAddKeepsPointer ==
    [][ /\ (op' = "add" /\ err' # "none") =>
            UNCHANGED <<_pointer, _horizon_length>>
        /\ (op' = "add" /\ err' = "none") =>
            \A kf \in DataFields(frame'.data) :
                /\ _pointer \in written'[kf[1]][kf[2]]
                /\ _buffer'[kf[1]][kf[2]][_pointer]
                     = Broadcast(frame'.data[kf[1]][kf[2]], _buffer'[kf[1]][kf[2]][_pointer])
        /\ op' # "add" => UNCHANGED <<_pointer, _horizon_length>> ]_vars

\* Every array of data has the shape [n_copys].
Conforming(data) ==
    \A kf \in DataFields(data) : DOMAIN data[kf[1]][kf[2]] = 0..(n_copys - 1)

\* An add call succeeded after an earlier one, with a mismatched array, had
\* raised: every successful call so far carried conforming arrays.
C27_Witness ==
    /\ op = "add" /\ err = "none"
    /\ max_horizon > 0
    /\ n_mismatched = 1
    /\ Len(history) = n_adds
    /\ \A i \in 1..Len(history) : Conforming(history[i])

\* C28: with storing enabled, a call of episode_step makes exactly one add
\* call, with one record for every agent id and one under 'global': when it
\* returns, the slot at the pointer is written and the pointer has moved by
\* one.  With storing disabled it leaves the buffer as it was.  So after
\* k >= 1 stored steps the fill counter is min(k, max_horizon) and the
\* store's keys are the agent ids and 'global'.
C28_EpisodeStepStores ==
    [][ op' = "episode_step" =>
            /\ _store = Some(TRUE) =>
                /\ DOMAIN frame'.data = Range(agent_ids) \cup {"global"}
                /\ err' = "none" =>
                    /\ NumAdds' = NumAdds + 1
                    /\ _pointer' = NextPointer(_pointer)
                    /\ \A kf \in DataFields(frame'.data) :
                        /\ _pointer \in written'[kf[1]][kf[2]]
                        /\ _buffer'[kf[1]][kf[2]][_pointer] = frame'.data[kf[1]][kf[2]]
                    /\ \A kf \in StoreFields :
                        \A s \in (DOMAIN _buffer[kf[1]][kf[2]]) \ {_pointer} :
                            _buffer'[kf[1]][kf[2]][s] = _buffer[kf[1]][kf[2]][s]
            /\ _store = Some(FALSE) =>
                UNCHANGED <<_buffer, _pointer, _horizon_length, written, n_adds>>
            /\ _horizon_length' = Min(NumAdds', max_horizon)
            /\ NumAdds' >= 1 => DOMAIN _buffer' = Range(agent_ids) \cup {"global"} ]_vars

\* A step was taken with storing disabled, after stored steps of a policy
\* with two agents had wrapped the ring.
C28_Witness ==
    /\ op = "episode_step" /\ err = "none"
    /\ _store = Some(FALSE)
    /\ agent_ids = <<"agent_1", "agent_0">>
    /\ max_horizon >= 2 /\ NumAdds > max_horizon
    /\ _horizon_length = max_horizon

\* C29: the registry keeps the first registration.  A register call for a
\* name not yet registered stores its attrs and leaves the other names; one
\* for a registered name raises and leaves the registry unchanged.
\* get_model_info returns the attrs of the name's first register call, and
\* for a name never registered raises and leaves the registry unchanged.
\* At every moment the registry holds, for each name ever registered, the
\* attrs of its first register call.
C29_FirstRegistrationKept ==
    [][ /\ reg_call'.op = "register" =>
            /\ reg_call'.name \notin DOMAIN algo_specs =>
                /\ reg_call'.err = "none"
                /\ DOMAIN algo_specs' = DOMAIN algo_specs \cup {reg_call'.name}
                /\ Some(algo_specs'[reg_call'.name]) = reg_call'.attrs
                /\ \A n \in DOMAIN algo_specs : algo_specs'[n] = algo_specs[n]
            /\ reg_call'.name \in DOMAIN algo_specs =>
                /\ reg_call'.err = "Exception"
                /\ algo_specs' = algo_specs
        /\ reg_call'.op = "get_model_info" =>
            /\ algo_specs' = algo_specs
            /\ reg_call'.name \in DOMAIN first_attrs =>
                /\ reg_call'.err = "none"
                /\ reg_call'.ret = Some(first_attrs[reg_call'.name])
            /\ reg_call'.name \notin DOMAIN first_attrs =>
                reg_call'.err = "Exception"
        /\ algo_specs' = first_attrs' ]_vars

\* A registered name was registered again with other attrs: the call raised
\* and the registry still holds the first attrs.
C29_Witness ==
    /\ reg_call.op = "register" /\ reg_call.err = "Exception"
    /\ reg_call.name = "ppo"
    /\ reg_call.attrs = Some([algo_class |-> "PPO", policy_mode |-> "on-policy", is_multi |-> FALSE])
    /\ algo_specs["ppo"] = [algo_class |-> "DQN", policy_mode |-> "off-policy", is_multi |-> FALSE]
    /\ DOMAIN algo_specs = {"ppo", "dqn"}

\* The agents of batch ts carry a mark of the loop of lines 231-239: each is
\* flagged in info_max_step (interrupted) or in info_real_done (not
\* interrupted, in this batch or a later one).
Applied(ts) ==
    \A i \in DOMAIN ts :
        /\ i \in DOMAIN info_max_step
        /\ info_max_step[i] \/ info_real_done[i]

\* The greatest j with agent i in batch p[j], or 0.
LastWith(p, i) ==
    LET js == { j \in 1..Len(p) : i \in DOMAIN p[j] }
    IN  IF js = {} THEN 0 ELSE CHOOSE j \in js : \A j2 \in js : j2 <= j

\* C30 as stated: once the polling loop of get_obs is over, by a normal exit
\* or by ValueError, every non-empty terminal-step batch seen in a poll of
\* the loop has been recorded and applied.
C30_Claimed ==
    pc \in {"done", "raised"} =>
        /\ ps = seen
        /\ \A j \in 1..Len(seen) : Applied(seen[j])

\* C30: a poll of the loop for a behaviour with n agents exits normally
\* exactly when it reports n decision steps; a poll reporting zero (n > 0)
\* makes one env.step() and polls again; every poll before the current one
\* reported zero, so the first poll reporting another count than 0 or n
\* raises ValueError; every non-empty batch seen is recorded in ps in the
\* poll that reports it; on a normal exit the batches seen have been applied
\* in order (info_max_step holds each agent's flag in the last batch that
\* reports it, info_real_done marks the agents some batch reports as not
\* interrupted, done marks those with _real_done and otherwise every agent of
\* a batch), and on ValueError none has; and a loop entered is left, given
\* that the environment reports zero at most MaxZeroPolls times in a row.
C30_PollingLoop ==
    /\ [][ pc = "poll" =>
            /\ n_polls' = n_polls + 1
            /\ n_steps = n_polls
            /\ pc' = "done" <=> last_ds' = n_agents
            /\ (last_ds' = 0 /\ n_agents # 0) => (pc' = "poll" /\ n_steps' = n_steps + 1)
            /\ (last_ds' # 0 \/ n_agents = 0) => n_steps' = n_steps
            /\ last_ds' \notin {0, n_agents} => pc' = "raised"
            /\ ps' = seen'
            /\ pc' = "done" =>
                /\ info_max_step' = [i \in 0..(n_agents - 1) |->
                        LastWith(seen', i) # 0 /\ seen'[LastWith(seen', i)][i]]
                /\ info_real_done' = [i \in 0..(n_agents - 1) |->
                        \E j \in 1..Len(seen') : i \in DOMAIN seen'[j] /\ ~seen'[j][i]]
                /\ done' = IF _real_done THEN info_real_done'
                           ELSE [i \in 0..(n_agents - 1) |->
                                    \E j \in 1..Len(seen') : i \in DOMAIN seen'[j]]
            /\ pc' = "raised" =>
                (done' = <<>> /\ info_max_step' = <<>> /\ info_real_done' = <<>>) ]_vars
    /\ (pc = "poll") ~> (pc \in {"done", "raised"})

\* With _real_done, a poll that reported no decision step and a batch with
\* agent 0 interrupted was followed by one that reported both agents and a
\* batch with agent 1 not interrupted: both batches were applied, and done
\* marks agent 1 only.
C30_Witness ==
    /\ pc = "done" /\ _real_done
    /\ n_agents = 2 /\ last_ds = 2
    /\ n_polls = 2 /\ n_steps = 1
    /\ Len(ps) = 2
    /\ DOMAIN ps[1] = {0} /\ ps[1][0]
    /\ DOMAIN ps[2] = {1} /\ ~ps[2][1]
    /\ info_max_step = [i \in 0..1 |-> i = 0]
    /\ done = [i \in 0..1 |-> i = 1]
====
